---- MODULE Spec2Model ----
(***************************************************************************)
(* Turbine placement optimisation (Untitled8.ipynb).                       *)
(*                                                                         *)
(* The notebook is a linear script: it derives the coverage matrix S_W,    *)
(* repairs its all-zero rows, derives the zone matrix L_Z and the          *)
(* adjacency matrix V, assembles a binary program over x (sites) and       *)
(* y (links), solves it and interprets the result.  Each stage is one      *)
(* action; pc is the position in the script.  Coordinates are integer      *)
(* points, so the Euclidean comparisons of the script are decided exactly  *)
(* on squared distances.                                                   *)
(***************************************************************************)
EXTENDS Integers, FiniteSets, Sequences, TLC

\* ---- bounds of the explored inputs ----
MaxSites == 3
MaxClusteredSites == 5
MaxWater == 2
MaxZones == 2
MaxCoord == 1
MaxRange == 1

\* ---- cost parameters of the script ----
C_capex_per_turbine == 800000
C_opex_per_turbine == 1200000
T == 10

VARIABLES
    num_locations, num_water_areas, num_rain_zones,
    water_sensor_range, comm_link_range,
    coords_j, coords_i,
    S_W, L_Z, V,
    status, x, y,
    results,
    pc

vars == <<num_locations, num_water_areas, num_rain_zones,
          water_sensor_range, comm_link_range, coords_j, coords_i,
          S_W, L_Z, V, status, x, y, results, pc>>

params == <<num_locations, num_water_areas, num_rain_zones,
            water_sensor_range, comm_link_range, coords_j, coords_i>>

\* ---- index ranges ----
\* sites and water areas anywhere on the grid
GridPoints == (0..MaxCoord) \X (0..MaxCoord)
\* sites and water areas clustered at the two ends of one grid edge
ClusterPoints == {<<0, 0>>, <<MaxCoord, 0>>}
Ranges == 0..MaxRange

locations == 0..(num_locations - 1)
water_areas == 0..(num_water_areas - 1)
rain_zones == 0..(num_rain_zones - 1)
links == {l \in locations \X locations : l[1] < l[2]}

\* ---- geometry ----
\* Square of np.linalg.norm(p - q).
SqNorm(p, q) == (p[1] - q[1]) * (p[1] - q[1]) + (p[2] - q[2]) * (p[2] - q[2])

\* np.linalg.norm(p - q) <= r, for a range r >= 0.
WithinRange(p, q, r) == SqNorm(p, q) <= r * r

\* sum of a 0/1 row over an index set
RECURSIVE SumOver(_, _)
SumOver(f, D) ==
    IF D = {} THEN 0
    ELSE LET d == CHOOSE e \in D : TRUE IN f[d] + SumOver(f, D \ {d})

\* ---- coverage matrix and repair pass ----
CoverageMatrix ==
    [i \in water_areas |->
        [j \in locations |->
            IF WithinRange(coords_i[i], coords_j[j], water_sensor_range) THEN 1 ELSE 0]]

\* the list of distances of the repair loop (compared through their squares)
distances(i) == [j \in locations |-> SqNorm(coords_i[i], coords_j[j])]

\* variant: ties resolved towards the highest index
RECURSIVE ArgMinScanLast(_, _, _, _)
ArgMinScanLast(d, n, k, best) ==
    IF k >= n THEN best
    ELSE ArgMinScanLast(d, n, k + 1, IF d[k] <= d[best] THEN k ELSE best)

ArgMin_LastTie(d, n) == ArgMinScanLast(d, n, 1, 0)

\* np.argmin: scan left to right, keep the first strictly smaller entry
RECURSIVE ArgMinScan(_, _, _, _)
ArgMinScan(d, n, k, best) ==
    IF k >= n THEN best
    ELSE ArgMinScan(d, n, k + 1, IF d[k] < d[best] THEN k ELSE best)

ArgMin(d, n) == ArgMinScan(d, n, 1, 0)

\* variant: the all-zero test never succeeds
RepairRow_NeverFires(M, i) ==
    IF SumOver(M[i], locations) < 0
    THEN [M[i] EXCEPT ![ArgMin(distances(i), num_locations)] = 1]
    ELSE M[i]

RepairRow(M, i) ==
    IF SumOver(M[i], locations) = 0
    THEN [M[i] EXCEPT ![ArgMin(distances(i), num_locations)] = 1]
    ELSE M[i]

RepairPass(M) == [i \in water_areas |-> RepairRow(M, i)]

\* ---- zone matrix ----
ZoneMatrix(remaining_assignments) ==
    [z \in rain_zones |->
        [j \in locations |->
            IF j < num_rain_zones
            THEN (IF j = z THEN 1 ELSE 0)
            ELSE (IF remaining_assignments[j - num_rain_zones] = z THEN 1 ELSE 0)]]

\* ---- adjacency matrix ----
AdjacencyMatrix ==
    [j \in locations |->
        [k \in locations |->
            IF j # k /\ WithinRange(coords_j[j], coords_j[k], comm_link_range)
            THEN 1 ELSE 0]]

\* ---- the binary program; X is the set of sites with x = 1, Y the links with y = 1 ----
\* variant: the "- 1" is missing
Force_Tree_Network_NoMinusOne(X, Y) == Cardinality(Y) = Cardinality(X)

Force_Tree_Network(X, Y) == Cardinality(Y) = Cardinality(X) - 1

\* variant: the bound is 0 instead of 1
WaterCoverage_Vacuous(X, i) == Cardinality({j \in X : S_W[i][j] = 1}) >= 0

WaterCoverage(X, i) == Cardinality({j \in X : S_W[i][j] = 1}) >= 1

RainZone(X, z) == Cardinality({j \in X : L_Z[z][j] = 1}) >= 1

LinkActivation(X, l) == l[1] \in X /\ l[2] \in X

\* variant: the range restriction on links is missing
LineOfSight_Dropped(l) == l[1] < l[2]

LineOfSight(l) == V[l[1]][l[2]] = 1

total_links_for_j(Y, j) == Cardinality({l \in Y : l[1] = j \/ l[2] = j})

\* variant: the degree is compared with 0 instead of x[j]
ConnectivityEnforcement_Dropped(X, Y, j) == total_links_for_j(Y, j) >= 0

ConnectivityEnforcement(X, Y, j) == total_links_for_j(Y, j) >= (IF j \in X THEN 1 ELSE 0)

\* site sets meeting the constraints that mention x only
CoveringSets ==
    {X \in SUBSET locations :
        /\ \A i \in water_areas : WaterCoverage(X, i)
        /\ \A z \in rain_zones : RainZone(X, z)}

\* links that the per-link constraints allow to be 1 once x is fixed
ActivatableLinks(X) == {l \in links : LinkActivation(X, l) /\ LineOfSight(l)}

LinkSets(X) ==
    {Y \in SUBSET ActivatableLinks(X) :
        /\ Force_Tree_Network(X, Y)
        /\ \A j \in locations : ConnectivityEnforcement(X, Y, j)}

\* every assignment satisfying all constraints of the model that selects k sites
FeasibleWith(k) ==
    UNION {{[X |-> X, Y |-> Y] : Y \in LinkSets(X)} :
              X \in {C \in CoveringSets : Cardinality(C) = k}}

\* every assignment satisfying all constraints of the model
FeasibleSet == UNION {FeasibleWith(k) : k \in 0..num_locations}

\* objective Minimize_Turbine_Count: the least k with a feasible assignment,
\* searched upwards from k; num_locations + 1 if there is none
RECURSIVE MinimumCount(_)
MinimumCount(k) ==
    IF k > num_locations THEN k
    ELSE IF FeasibleWith(k) # {} THEN k
    ELSE MinimumCount(k + 1)

\* the assignments the solver may return with status Optimal
OptimalSet == FeasibleWith(MinimumCount(0))

\* ---- result block ----
RECURSIVE SortedList(_)
SortedList(S) ==
    IF S = {} THEN <<>>
    ELSE LET m == CHOOSE e \in S : \A o \in S : e <= o
         IN <<m>> \o SortedList(S \ {m})

RECURSIVE LinkList(_, _)
LinkList(js, Y) ==
    IF js = <<>> THEN <<>>
    ELSE LET j == Head(js)
             ks == SortedList({l[2] : l \in {m \in Y : m[1] = j}})
         IN [n \in 1..Len(ks) |-> <<j, ks[n]>>] \o LinkList(Tail(js), Y)

Report ==
    LET selected_sites == SortedList({j \in locations : x[j] = 1})
        final_capex == Len(selected_sites) * C_capex_per_turbine
        final_opex_annual == Len(selected_sites) * C_opex_per_turbine
        active_links == LinkList(SortedList(locations), {l \in links : y[l] = 1})
    IN [selected_sites |-> selected_sites,
        final_capex |-> final_capex,
        final_opex_annual |-> final_opex_annual,
        final_total_cost |-> final_capex + (T * final_opex_annual),
        active_links |-> active_links]

\* ---- the script ----
\* the parameters and the generated coordinates
Inputs(MinN, MaxN, Points) ==
    /\ num_locations \in MinN..MaxN
    /\ num_water_areas \in 1..MaxWater
    /\ num_rain_zones \in {z \in 1..MaxZones : z <= num_locations}
    /\ water_sensor_range \in Ranges
    /\ comm_link_range \in Ranges
    /\ coords_j \in [0..(num_locations - 1) -> Points]
    /\ coords_i \in [0..(num_water_areas - 1) -> Points]

Init ==
    /\ \/ Inputs(1, MaxSites, GridPoints)
       \/ Inputs(MaxSites + 1, MaxClusteredSites, ClusterPoints)
    /\ S_W = <<>>
    /\ L_Z = <<>>
    /\ V = <<>>
    /\ status = "Not Solved"
    /\ x = <<>>
    /\ y = <<>>
    /\ results = <<>>
    /\ pc = "coverage"

BuildCoverage ==
    /\ pc = "coverage"
    /\ S_W' = CoverageMatrix
    /\ pc' = "repair"
    /\ UNCHANGED <<params, L_Z, V, status, x, y, results>>

Repair ==
    /\ pc = "repair"
    /\ S_W' = RepairPass(S_W)
    /\ pc' = "zones"
    /\ UNCHANGED <<params, L_Z, V, status, x, y, results>>

BuildZones ==
    /\ pc = "zones"
    /\ \E remaining_assignments \in
            [0..(num_locations - num_rain_zones - 1) -> rain_zones] :
          L_Z' = ZoneMatrix(remaining_assignments)
    /\ pc' = "adjacency"
    /\ UNCHANGED <<params, S_W, V, status, x, y, results>>

BuildAdjacency ==
    /\ pc = "adjacency"
    /\ V' = AdjacencyMatrix
    /\ pc' = "solve"
    /\ UNCHANGED <<params, S_W, L_Z, status, x, y, results>>

SolveOptimal ==
    /\ pc = "solve"
    /\ MinimumCount(0) <= num_locations
    /\ \E s \in OptimalSet :
          /\ x' = [j \in locations |-> IF j \in s.X THEN 1 ELSE 0]
          /\ y' = [l \in links |-> IF l \in s.Y THEN 1 ELSE 0]
    /\ status' = "Optimal"
    /\ pc' = "report"
    /\ UNCHANGED <<params, S_W, L_Z, V, results>>

SolveInfeasible ==
    /\ pc = "solve"
    /\ MinimumCount(0) > num_locations
    /\ status' = "Infeasible"
    /\ pc' = "report"
    /\ UNCHANGED <<params, S_W, L_Z, V, x, y, results>>

ReportOptimal ==
    /\ pc = "report"
    /\ status = "Optimal"
    /\ results' = Report
    /\ pc' = "done"
    /\ UNCHANGED <<params, S_W, L_Z, V, status, x, y>>

ReportNoSolution ==
    /\ pc = "report"
    /\ status # "Optimal"
    /\ pc' = "done"
    /\ UNCHANGED <<params, S_W, L_Z, V, status, x, y, results>>

Next ==
    \/ BuildCoverage
    \/ Repair
    \/ BuildZones
    \/ BuildAdjacency
    \/ SolveOptimal
    \/ SolveInfeasible
    \/ ReportOptimal
    \/ ReportNoSolution

Spec == Init /\ [][Next]_vars

\* ======================= properties =======================

Repaired == pc \notin {"coverage", "repair"}
Solved == pc \in {"report", "done"}

\* the solution read back from the solver (defined once status is Optimal)
Selected == {j \in locations : x[j] = 1}
Active == {l \in links : y[l] = 1}
Degree(j) == Cardinality({l \in Active : l[1] = j \/ l[2] = j})

\* water area i has no site within sensor range
OutOfRange(i) ==
    \A j \in locations : ~WithinRange(coords_i[i], coords_j[j], water_sensor_range)

\* j is the site nearest to water area i, the lowest index among equally near ones
Nearest(i, j) ==
    /\ \A k \in locations : SqNorm(coords_i[i], coords_j[j]) <= SqNorm(coords_i[i], coords_j[k])
    /\ \A k \in locations :
          k < j => SqNorm(coords_i[i], coords_j[j]) < SqNorm(coords_i[i], coords_j[k])

\* sites reachable from the sites of R over active links
RECURSIVE Reach(_)
Reach(R) ==
    LET more == {j \in Selected : \E k \in R : <<j, k>> \in Active \/ <<k, j>> \in Active}
    IN IF more \subseteq R THEN R ELSE Reach(R \cup more)

\* the selected sites and the active links form exactly one connected component
OneComponent == Selected # {} /\ \A j \in Selected : Reach({j}) = Selected

\* C1: after the repair pass every water-area row of S_W has at least one entry equal to 1
C1_EveryRowCovered ==
    Repaired => \A i \in water_areas : SumOver(S_W[i], locations) >= 1

\* C1 witness: the repair pass has run on a matrix with an all-zero row
C1_Witness ==
    /\ pc = "zones"
    /\ \E i \in water_areas : OutOfRange(i)

\* C2: in every Optimal solution the selected sites and active links form one connected component
C2_Connected ==
    status = "Optimal" => OneComponent

\* C3: when one site is within range of every water area and there is a single rain zone,
\* the status is Optimal with one turbine; with one site the result is sites [0] and no links
C3_SingleSiteOptimal ==
    (/\ Solved
     /\ num_rain_zones = 1
     /\ \E j \in locations : \A i \in water_areas :
           WithinRange(coords_i[i], coords_j[j], water_sensor_range))
    => /\ status = "Optimal"
       /\ Cardinality(Selected) = 1
       /\ (pc = "done" /\ num_locations = 1)
             => results.selected_sites = <<0>> /\ results.active_links = <<>>

\* C4 as stated: in every Optimal solution every water area is within sensor range of a selected site
C4_WithinSensorRange ==
    status = "Optimal" =>
        \A i \in water_areas : \E j \in Selected :
            WithinRange(coords_i[i], coords_j[j], water_sensor_range)

\* C4 amended: in every Optimal solution every water area has a selected site that is within
\* sensor range of it or, when no site at all is within range, is the nearest site (lowest index)
C4_CoveredOrNearest ==
    status = "Optimal" =>
        \A i \in water_areas : \E j \in Selected :
            \/ WithinRange(coords_i[i], coords_j[j], water_sensor_range)
            \/ OutOfRange(i) /\ Nearest(i, j)

\* C4 witness: an Optimal solution for an input with a water area out of range of every site
C4_Witness ==
    /\ status = "Optimal"
    /\ \E i \in water_areas : OutOfRange(i)
    /\ \E i \in water_areas : ~OutOfRange(i)

\* C5: with communication range 0 and water areas that force two non-adjacent sites into every
\* covering selection, the status is Infeasible and nothing is derived
C5_ZeroRangeInfeasible ==
    (/\ Solved
     /\ comm_link_range = 0
     /\ \A X \in SUBSET locations :
           (\A i \in water_areas : WaterCoverage(X, i))
           => \E j \in X : \E k \in X : j # k /\ V[j][k] = 0)
    => status = "Infeasible" /\ results = <<>>

\* C6: in every Optimal solution both ends of an active link are selected and the link is
\* adjacent in V, that is within communication range
C6_ActiveLinkEnds ==
    status = "Optimal" =>
        \A l \in Active :
            /\ x[l[1]] = 1
            /\ x[l[2]] = 1
            /\ V[l[1]][l[2]] = 1
            /\ WithinRange(coords_j[l[1]], coords_j[l[2]], comm_link_range)

\* C6 witness: an Optimal solution with an active link while some pair of sites is out of range
C6_Witness ==
    /\ status = "Optimal"
    /\ Active # {}
    /\ \E l \in links : V[l[1]][l[2]] = 0

\* C7: every selected site of an Optimal solution has degree >= 1 unless it is the only one,
\* and one selected site with no link is consistent with the constraints wherever it
\* meets the coverage constraints
C7_DegreeOrSingle ==
    /\ status = "Optimal" =>
          \A j \in Selected : Degree(j) >= 1 \/ Cardinality(Selected) = 1
    /\ pc = "solve" =>
          \A j \in locations :
              {j} \in CoveringSets => [X |-> {j}, Y |-> {}] \in FeasibleSet

\* C8: in every Optimal solution the number of active links is the number of selected sites minus one
C8_TreeSize ==
    status = "Optimal" => Cardinality(Active) = Cardinality(Selected) - 1

\* C8 witness: an Optimal solution with at least three selected sites
C8_Witness ==
    /\ status = "Optimal"
    /\ Cardinality(Selected) >= 3

\* C9: the repair pass leaves rows with an entry untouched, sets in an all-zero row exactly
\* the entry of the nearest site (lowest index among ties), and changes nothing when re-applied
C9_RepairIdempotent ==
    Repaired =>
        /\ RepairPass(S_W) = S_W
        /\ \A i \in water_areas :
              IF OutOfRange(i)
              THEN \A j \in locations : S_W[i][j] = 1 <=> Nearest(i, j)
              ELSE S_W[i] = CoverageMatrix[i]

\* C9 witness: the repair pass has run on an all-zero row with two equally near nearest sites
C9_Witness ==
    /\ pc = "zones"
    /\ \E i \in water_areas :
          /\ OutOfRange(i)
          /\ \E j \in locations : \E k \in locations :
                /\ j < k
                /\ Nearest(i, j)
                /\ SqNorm(coords_i[i], coords_j[j]) = SqNorm(coords_i[i], coords_j[k])
    /\ \E i \in water_areas : ~OutOfRange(i)

\* C10: every feasible assignment selects at least two sites, and an instance with fewer
\* than two sites or with no adjacent pair of sites is Infeasible
C10_AtLeastTwoSites ==
    /\ pc = "solve" => \A s \in FeasibleSet : Cardinality(s.X) >= 2
    /\ (Solved /\ (num_locations < 2 \/ \A l \in links : V[l[1]][l[2]] = 0))
          => status = "Infeasible"

\* C10 witness: a solved instance with several sites of which no two are adjacent,
\* and one site that alone meets the coverage constraints
C10_Witness ==
    /\ pc = "report"
    /\ num_locations >= 2
    /\ \A l \in links : V[l[1]][l[2]] = 0
    /\ \E j \in locations : {j} \in CoveringSets

====
